---------------------------- MODULE Spec2Model ----------------------------
(***************************************************************************)
(* A model of emis_task/main.py: the Extractor (extract_data_from_entry,   *)
(* format_name, format_address), the File Reader (process_file), the       *)
(* duplicate-safe insert (safe_insert) and the Loader (process_directory). *)
(*                                                                         *)
(* A Python string is a sequence of one-character strings, so that join,   *)
(* split and strip are computed character by character.  A dict is a       *)
(* function whose domain is the set of keys that are present.  None, where  *)
(* a string may stand, is the one-element sequence <<"None">>, which is no *)
(* string (its element is not a character); where an object may stand it   *)
(* is the record NoneObject.  A call that raises is the record             *)
(* Raise(exc, key).  Inputs are well typed: a key that is present   *)
(* holds a value of the JSON type the code expects (a string, a list, an   *)
(* object), of any content, empty included.                                *)
(***************************************************************************)
EXTENDS Integers, Sequences, FiniteSets, TLC

VARIABLES
    files,       \* the directory listing: the content of each *.json file
    patients,    \* the rows of table "patients"
    encounters,  \* the rows of table "encounters"
    run,         \* 1: first call of process_directory, 2: second call
    i,           \* process_directory's loop variable i
    pc,          \* where process_directory is
    task,        \* pool.map: per file of the batch, "idle" | "running" | "done"
    results,     \* pool.map: per file of the batch, what process_file gave
    r,           \* index of `result` in `for result in batch_results`
    last,        \* what the latest safe_insert call did
    progress,    \* the latest "Processed batch %d/%d" record
    inserted,    \* indices of the files whose rows this run handed to safe_insert
    after1,      \* the tables as the first run left them
    faults,      \* store errors raised by conn.execute so far
    arg,         \* the argument of a call of a pure function
    ret          \* what that call gave

vars ==
    <<files, patients, encounters, run, i, pc, task, results, r, last,
      progress, inserted, after1, faults, arg, ret>>

loaderVars ==
    <<files, patients, encounters, run, i, pc, task, results, r, last,
      progress, inserted, after1, faults>>

--------------------------------------------------------------------------
(* Bounds of the model *)

\* longest string of an address component
MaxStrLen ==
    1

\* longest subject reference
MaxRefLen ==
    3

\* most given names
MaxGiven ==
    2

\* most entries of an address "line" list
MaxLines ==
    1

\* most files in the directory
MaxFiles ==
    3

\* most store errors conn.execute raises in the two runs together
MaxFaults ==
    1

\* main.py:195 sets batch_size = 1000; the model scales it down so that a
\* directory of MaxFiles files makes several batches, a full one included
batch_size ==
    2

\* Pool(processes=4)
processes ==
    4

--------------------------------------------------------------------------
(* Python values *)

None ==
    <<"None">>

\* None in the place of a JSON object
NoneObject ==
    [None |-> TRUE]

EmptyDict ==
    [k \in {} |-> <<>>]

\* `not d` for a dict or None
Falsy(d) ==
    d = NoneObject \/ DOMAIN d = {}

Has(d, k) ==
    k \in DOMAIN d

\* d.get(k, default)
Get(d, k, default) ==
    IF Has(d, k) THEN d[k] ELSE default

Raise(exc, key) ==
    [type |-> "raise", exc |-> exc, key |-> key]

CommaSpace ==
    <<",", " ">>

\* sep.join(list)
RECURSIVE Join(_, _)
Join(sep, list) ==
    IF list = <<>> THEN <<>>
    ELSE IF Len(list) = 1 THEN Head(list)
    ELSE Head(list) \o sep \o Join(sep, Tail(list))

\* s.lstrip(chars)
RECURSIVE LStrip(_, _)
LStrip(s, chars) ==
    IF s # <<>> /\ Head(s) \in chars THEN LStrip(Tail(s), chars) ELSE s

\* s.rstrip(chars)
RECURSIVE RStrip(_, _)
RStrip(s, chars) ==
    IF s # <<>> /\ s[Len(s)] \in chars
    THEN RStrip(SubSeq(s, 1, Len(s) - 1), chars)
    ELSE s

\* s.strip(chars)
Strip(s, chars) ==
    RStrip(LStrip(s, chars), chars)

\* s.split(c): the pieces of s between the occurrences of the character c
RECURSIVE SplitFrom(_, _, _)
SplitFrom(s, c, cur) ==
    IF s = <<>> THEN <<cur>>
    ELSE IF Head(s) = c THEN <<cur>> \o SplitFrom(Tail(s), c, <<>>)
    ELSE SplitFrom(Tail(s), c, Append(cur, Head(s)))

Split(s, c) ==
    SplitFrom(s, c, <<>>)

--------------------------------------------------------------------------
(* The Extractor *)

\* format_address with strip(" ") in place of strip(", ")
format_address_trim_spaces_only(address) ==
    IF Falsy(address) THEN None
    ELSE LET line == Join(CommaSpace, Get(address, "line", <<>>))
             city == Get(address, "city", <<>>)
             state == Get(address, "state", <<>>)
             country == Get(address, "country", <<>>)
         IN  Strip(line \o CommaSpace \o city \o CommaSpace \o state
                   \o CommaSpace \o country, {" "})

format_address(address) ==
    IF Falsy(address) THEN None
    ELSE LET line == Join(CommaSpace, Get(address, "line", <<>>))
             city == Get(address, "city", <<>>)
             state == Get(address, "state", <<>>)
             country == Get(address, "country", <<>>)
         IN  Strip(line \o CommaSpace \o city \o CommaSpace \o state
                   \o CommaSpace \o country, {",", " "})

\* format_name with the given names before the family name
format_name_given_first(resource) ==
    IF ~Has(resource, "name") THEN Raise("KeyError", "name")
    ELSE IF resource["name"] = <<>> THEN Raise("IndexError", "name")
    ELSE IF ~Has(resource["name"][1], "family") THEN Raise("KeyError", "family")
    ELSE IF ~Has(resource["name"][1], "given") THEN Raise("KeyError", "given")
    ELSE [type |-> "ok",
          value |-> Join(<<" ">>, resource["name"][1]["given"]) \o CommaSpace
                    \o resource["name"][1]["family"]]

format_name(resource) ==
    IF ~Has(resource, "name") THEN Raise("KeyError", "name")
    ELSE IF resource["name"] = <<>> THEN Raise("IndexError", "name")
    ELSE IF ~Has(resource["name"][1], "family") THEN Raise("KeyError", "family")
    ELSE IF ~Has(resource["name"][1], "given") THEN Raise("KeyError", "given")
    ELSE [type |-> "ok",
          value |-> resource["name"][1]["family"] \o CommaSpace
                    \o Join(<<" ">>, resource["name"][1]["given"])]

Unknown ==
    <<"U", "n", "k", "n", "o", "w", "n">>

\* the Patient branch of extract_data_from_entry; the dict display is
\* evaluated key by key, so the first absent key decides what is raised
ExtractPatient(resource) ==
    IF ~Has(resource, "id") THEN Raise("KeyError", "id")
    ELSE IF format_name(resource).type = "raise" THEN format_name(resource)
    ELSE IF ~Has(resource, "gender") THEN Raise("KeyError", "gender")
    ELSE IF ~Has(resource, "birthDate") THEN Raise("KeyError", "birthDate")
    ELSE IF Get(resource, "address", <<EmptyDict>>) = <<>>
         THEN Raise("IndexError", "address")
    ELSE [type |-> "Patient",
          data |-> ("ID" :> resource["id"])
                   @@ ("Name" :> format_name(resource).value)
                   @@ ("Gender" :> resource["gender"])
                   @@ ("Birth Date" :> resource["birthDate"])
                   @@ ("Deceased DateTime" :>
                           Get(resource, "deceasedDateTime", None))
                   @@ ("Marital Status" :>
                           Get(Get(resource, "maritalStatus", EmptyDict),
                               "text", None))
                   @@ ("Address" :>
                           format_address(
                               Get(resource, "address", <<EmptyDict>>)[1]))]

\* the Encounter branch of extract_data_from_entry
ExtractEncounter(resource) ==
    IF ~Has(resource, "id") THEN Raise("KeyError", "id")
    ELSE IF ~Has(resource, "status") THEN Raise("KeyError", "status")
    ELSE IF Get(resource, "type", <<EmptyDict>>) = <<>>
         THEN Raise("IndexError", "type")
    ELSE IF ~Has(resource, "subject") THEN Raise("KeyError", "subject")
    ELSE IF ~Has(resource["subject"], "reference")
         THEN Raise("KeyError", "reference")
    ELSE LET pieces == Split(resource["subject"]["reference"], ":")
         IN  [type |-> "Encounter",
              data |-> ("Encounter ID" :> resource["id"])
                       @@ ("Status" :> resource["status"])
                       @@ ("Type" :>
                               Get(Get(resource, "type", <<EmptyDict>>)[1],
                                   "text", Unknown))
                       @@ ("Patient ID" :> pieces[Len(pieces)])]

extract_data_from_entry(entry) ==
    IF ~Has(entry, "resource") THEN Raise("KeyError", "resource")
    ELSE IF ~Has(entry["resource"], "resourceType")
         THEN Raise("KeyError", "resourceType")
    ELSE IF entry["resource"]["resourceType"] = "Patient"
         THEN ExtractPatient(entry["resource"])
    ELSE IF entry["resource"]["resourceType"] = "Encounter"
         THEN ExtractEncounter(entry["resource"])
    ELSE [type |-> "None"]

--------------------------------------------------------------------------
(* The File Reader *)

\* what open() and json.load() make of a file: an IOError, a
\* JSONDecodeError, or the parsed document
FileError(content) ==
    content.kind # "json"

\* `if x` for a string or None
Truthy(x) ==
    x # None /\ x # <<>>

Raised(x) ==
    Has(x, "exc")

\* [f(e)["data"] for e in entries if f(e) and f(e)["type"] == kind]
RECURSIVE DataOfKind(_, _)
DataOfKind(entries, kind) ==
    IF entries = <<>> THEN <<>>
    ELSE LET out == extract_data_from_entry(Head(entries))
         IN  IF out.type = kind
             THEN <<out.data>> \o DataOfKind(Tail(entries), kind)
             ELSE DataOfKind(Tail(entries), kind)

\* process_file without its except clause
process_file_reraise_read_error(file_path, content) ==
    IF FileError(content) THEN Raise(content.kind, "file")
    ELSE LET entries == Get(content.data, "entry", <<>>)
             bad == {n \in 1..Len(entries) :
                        Raised(extract_data_from_entry(entries[n]))}
         IN  IF bad # {}
             THEN extract_data_from_entry(
                      entries[CHOOSE n \in bad : \A m \in bad : n <= m])
             ELSE [file |-> file_path,
                   patients |-> DataOfKind(entries, "Patient"),
                   encounters |-> DataOfKind(entries, "Encounter"),
                   error |-> None]

\* process_file: the except clause catches IOError and JSONDecodeError
\* only, so what extract_data_from_entry raises (the first entry that
\* raises, in document order) leaves process_file
process_file(file_path, content) ==
    IF FileError(content)
    THEN [file |-> file_path, error |-> <<content.kind>>]
    ELSE LET entries == Get(content.data, "entry", <<>>)
             bad == {n \in 1..Len(entries) :
                        Raised(extract_data_from_entry(entries[n]))}
         IN  IF bad # {}
             THEN extract_data_from_entry(
                      entries[CHOOSE n \in bad : \A m \in bad : n <= m])
             ELSE [file |-> file_path,
                   patients |-> DataOfKind(entries, "Patient"),
                   encounters |-> DataOfKind(entries, "Encounter"),
                   error |-> None]

--------------------------------------------------------------------------
(* The duplicate-safe insert *)

\* the insert with on_conflict_do_update: a conflicting row is replaced
execute_or_replace(table, record, unique_column) ==
    {row \in table : row[unique_column] # record[unique_column]}
        \cup {record}

\* conn.execute(insert(table).values(**record)
\*                  .on_conflict_do_nothing(index_elements=[unique_column]))
\* when the store raises nothing
execute(table, record, unique_column) ==
    IF \E row \in table : row[unique_column] = record[unique_column]
    THEN table
    ELSE table \cup {record}

\* the for loop of safe_insert from record n on; fault is the set of
\* positions at which conn.execute raises an SQLAlchemyError
RECURSIVE InsertLoop(_, _, _, _, _)
InsertLoop(st, records, unique_column, fault, n) ==
    IF n > Len(records) THEN st
    ELSE InsertLoop(
             [table |-> IF n \in fault THEN st.table
                        ELSE execute(st.table, records[n], unique_column),
              attempted |-> Append(st.attempted, records[n]),
              logged |-> IF n \in fault
                         THEN Append(st.logged, records[n])
                         ELSE st.logged],
             records, unique_column, fault, n + 1)

\* the for loop inside one try: the first error ends the call
RECURSIVE InsertLoopOneTry(_, _, _, _, _)
InsertLoopOneTry(st, records, unique_column, fault, n) ==
    IF n > Len(records) THEN st
    ELSE IF n \in fault
    THEN [table |-> st.table,
          attempted |-> Append(st.attempted, records[n]),
          logged |-> Append(st.logged, records[n])]
    ELSE InsertLoopOneTry(
             [table |-> execute(st.table, records[n], unique_column),
              attempted |-> Append(st.attempted, records[n]),
              logged |-> st.logged],
             records, unique_column, fault, n + 1)

\* safe_insert with the try around the for loop
safe_insert_one_try(table, records, unique_column, fault) ==
    InsertLoopOneTry([table |-> table, attempted |-> <<>>, logged |-> <<>>],
                     records, unique_column, fault, 1)

\* safe_insert(conn, table, records, unique_column): the table afterwards,
\* the records handed to conn.execute, in order, and the records logged by
\* logging.error("Failed to insert record ...")
safe_insert(table, records, unique_column, fault) ==
    InsertLoop([table |-> table, attempted |-> <<>>, logged |-> <<>>],
               records, unique_column, fault, 1)

--------------------------------------------------------------------------
(* The inputs of the Extractor, within the bounds *)

\* the dicts with key k bound to a value of V, and the dict without k
Opt(k, V) ==
    {EmptyDict} \cup {k :> v : v \in V}

StringsOver(chars, n) ==
    UNION {[1..k -> chars] : k \in 0..n}

ListsOf(V, n) ==
    UNION {[1..k -> V] : k \in 0..n}

AddressChars ==
    {"a", ",", " "}

AddressStrings ==
    StringsOver(AddressChars, MaxStrLen)

Doe ==
    <<"D", "o", "e">>

John ==
    <<"J", "o", "h", "n">>

Ann ==
    <<"A", "n", "n">>

NameInputs ==
    {f @@ g : f \in Opt("family", {Doe}),
              g \in Opt("given", ListsOf({John, Ann}, MaxGiven))}

PatientResources ==
    {[resourceType |-> "Patient"] @@ a @@ b @@ c @@ d @@ e @@ f @@ g :
        a \in Opt("id", {<<"1">>}),
        b \in Opt("name", ListsOf(NameInputs, 1)),
        c \in Opt("gender", {<<"m">>}),
        d \in Opt("birthDate", {<<"1", "9", "9", "0">>}),
        e \in Opt("deceasedDateTime", {<<"2", "0", "2", "0">>}),
        f \in Opt("maritalStatus", Opt("text", {<<"S">>})),
        g \in Opt("address",
                  ListsOf({EmptyDict, [city |-> <<"a">>]}, 1))}

EncounterResources ==
    {[resourceType |-> "Encounter"] @@ a @@ b @@ c @@ d :
        a \in Opt("id", {<<"E", "1">>}),
        b \in Opt("status", {<<"f">>}),
        c \in Opt("type", ListsOf(Opt("text", {<<"c">>}), 1)),
        d \in Opt("subject",
                  Opt("reference", StringsOver({"P", ":", "1"}, MaxRefLen)))}

OtherResources ==
    {t @@ a : t \in Opt("resourceType", {"Observation"}),
              a \in Opt("id", {<<"1">>})}

EntryInputs ==
    Opt("resource", PatientResources \cup EncounterResources
                        \cup OtherResources)

--------------------------------------------------------------------------
(***************************************************************************)
(* The Loader: process_directory, run twice over the same directory.  Both *)
(* runs list the directory in the same order.  pool.map is modelled with   *)
(* one task per file (its grouping of files into chunks changes neither    *)
(* the results nor what is raised first).  The store may raise an          *)
(* SQLAlchemyError at any conn.execute, at most MaxFaults times; opening   *)
(* and committing the transaction of engine.begin() do not fail.           *)
(***************************************************************************)

Pending ==
    [type |-> "pending"]

NoCall ==
    [call |-> "none"]

NoProgress ==
    [k |-> 0, total |-> 0]

NotTaken ==
    [taken |-> FALSE]

Min(a, b) ==
    IF a <= b THEN a ELSE b

\* batch_files = files[i: i + batch_size], as the indices it holds
BatchIndices ==
    (i + 1)..Min(i + batch_size, Len(files))

\* a map that returns as soon as one task is done
BatchCompleteAny(t) ==
    t = <<>> \/ \E j \in DOMAIN t : t[j] = "done"

\* pool.map returns (or raises) once every task of the batch is done
BatchComplete(t) ==
    \A j \in DOMAIN t : t[j] = "done"

\* for i in range(0, len(files), batch_size): the next batch, its pool
StartBatch ==
    /\ pc = "loop"
    /\ i < Len(files)
    /\ task' = [j \in 1..Cardinality(BatchIndices) |-> "idle"]
    /\ results' = [j \in 1..Cardinality(BatchIndices) |-> Pending]
    /\ pc' = "map"
    /\ UNCHANGED <<files, patients, encounters, run, i, r, last, progress,
                   inserted, after1, faults, arg, ret>>

\* a pool process takes a file of the batch
WorkerStart(j) ==
    /\ pc = "map"
    /\ task[j] = "idle"
    /\ Cardinality({m \in DOMAIN task : task[m] = "running"}) < processes
    /\ task' = [task EXCEPT ![j] = "running"]
    /\ UNCHANGED <<files, patients, encounters, run, i, pc, results, r, last,
                   progress, inserted, after1, faults, arg, ret>>

\* the pool process ends process_file and sends back what it gave
WorkerFinish(j) ==
    /\ task[j] = "running"
    /\ task' = [task EXCEPT ![j] = "done"]
    /\ results' = [results EXCEPT ![j] = process_file(i + j, files[i + j])]
    /\ UNCHANGED <<files, patients, encounters, run, i, pc, r, last,
                   progress, inserted, after1, faults, arg, ret>>

\* pool.map returns batch_results, or raises what a process_file raised;
\* nothing in process_directory catches that
MapReturn ==
    /\ pc = "map"
    /\ BatchComplete(task)
    /\ IF \E j \in DOMAIN results : Raised(results[j])
       THEN pc' = "aborted" /\ r' = r
       ELSE pc' = "insert" /\ r' = 1
    /\ UNCHANGED <<files, patients, encounters, run, i, task, results, last,
                   progress, inserted, after1, faults, arg, ret>>

\* if result["error"]: continue
SkipResult ==
    /\ pc = "insert"
    /\ r <= Len(results)
    /\ results[r] # Pending
    /\ Truthy(results[r].error)
    /\ r' = r + 1
    /\ UNCHANGED <<files, patients, encounters, run, i, pc, task, results,
                   last, progress, inserted, after1, faults, arg, ret>>

\* the sets of positions at which the store may fail in a call on n records
FaultPatterns(n) ==
    {f \in SUBSET (1..n) : faults + Cardinality(f) <= MaxFaults}

\* safe_insert(conn, patients_table, result["patients"], "ID")
InsertPatients ==
    /\ pc = "insert"
    /\ r <= Len(results)
    /\ results[r] # Pending
    /\ ~Truthy(results[r].error)
    /\ \E fault \in FaultPatterns(Len(results[r].patients)) :
           LET out == safe_insert(patients, results[r].patients, "ID", fault)
           IN  /\ patients' = out.table
               /\ last' = [call |-> "patients", records |-> results[r].patients,
                           fault |-> fault, attempted |-> out.attempted,
                           logged |-> out.logged]
               /\ faults' = faults + Cardinality(fault)
    /\ inserted' = inserted \cup {results[r].file}
    /\ pc' = "insert_encounters"
    /\ UNCHANGED <<files, encounters, run, i, task, results, r, progress,
                   after1, arg, ret>>

\* safe_insert(conn, encounters_table, result["encounters"], "Encounter ID")
InsertEncounters ==
    /\ pc = "insert_encounters"
    /\ \E fault \in FaultPatterns(Len(results[r].encounters)) :
           LET out == safe_insert(encounters, results[r].encounters,
                                  "Encounter ID", fault)
           IN  /\ encounters' = out.table
               /\ last' = [call |-> "encounters",
                           records |-> results[r].encounters,
                           fault |-> fault, attempted |-> out.attempted,
                           logged |-> out.logged]
               /\ faults' = faults + Cardinality(fault)
    /\ r' = r + 1
    /\ pc' = "insert"
    /\ UNCHANGED <<files, patients, run, i, task, results, progress,
                   inserted, after1, arg, ret>>

\* logging.info("Processed batch %d/%d", i // batch_size + 1,
\*              (len(files) // batch_size) + 1), and the next i
LogProgress ==
    /\ pc = "insert"
    /\ r > Len(results)
    /\ progress' = [k |-> (i \div batch_size) + 1,
                    total |-> (Len(files) \div batch_size) + 1]
    /\ i' = i + batch_size
    /\ pc' = "loop"
    /\ UNCHANGED <<files, patients, encounters, run, task, results, r, last,
                   inserted, after1, faults, arg, ret>>

\* the for loop is exhausted: process_directory returns
Return ==
    /\ pc = "loop"
    /\ i >= Len(files)
    /\ pc' = "done"
    /\ UNCHANGED <<files, patients, encounters, run, i, task, results, r,
                   last, progress, inserted, after1, faults, arg, ret>>

\* process_directory is called again, on the same directory and store,
\* after the first call returned or raised
SecondRun ==
    /\ pc \in {"done", "aborted"}
    /\ run = 1
    /\ run' = 2
    /\ after1' = [taken |-> TRUE, patients |-> patients,
                  encounters |-> encounters, faults |-> faults,
                  pc |-> pc]
    /\ i' = 0
    /\ pc' = "loop"
    /\ task' = <<>>
    /\ results' = <<>>
    /\ r' = 0
    /\ last' = NoCall
    /\ progress' = NoProgress
    /\ inserted' = {}
    /\ UNCHANGED <<files, patients, encounters, faults, arg, ret>>

\* the entries the files of the model are made of
PatientDoe ==
    [resource |->
        [resourceType |-> "Patient", id |-> <<"1">>,
         name |-> <<[family |-> Doe, given |-> <<John>>]>>,
         gender |-> <<"m">>, birthDate |-> <<"1", "9", "9", "0">>,
         address |-> <<[city |-> <<"a">>]>>]]

\* another record of the same id
PatientDoeAgain ==
    [resource |->
        [resourceType |-> "Patient", id |-> <<"1">>,
         name |-> <<[family |-> Doe, given |-> <<Ann>>]>>,
         gender |-> <<"f">>, birthDate |-> <<"1", "9", "9", "1">>]]

PatientTwo ==
    [resource |->
        [resourceType |-> "Patient", id |-> <<"2">>,
         name |-> <<[family |-> Doe, given |-> <<Ann, John>>]>>,
         gender |-> <<"f">>, birthDate |-> <<"1", "9", "9", "2">>]]

\* no "gender"
PatientNoGender ==
    [resource |->
        [resourceType |-> "Patient", id |-> <<"3">>,
         name |-> <<[family |-> Doe, given |-> <<John>>]>>,
         birthDate |-> <<"1", "9", "9", "3">>]]

EncounterOne ==
    [resource |->
        [resourceType |-> "Encounter", id |-> <<"E", "1">>,
         status |-> <<"f">>,
         subject |-> [reference |-> <<"P", ":", "1">>]]]

Observation ==
    [resource |-> [resourceType |-> "Observation", id |-> <<"O">>]]

Document(entries) ==
    [kind |-> "json", data |-> [entry |-> entries]]

FileContents ==
    {Document(<<PatientDoe, EncounterOne>>),
     Document(<<PatientDoeAgain, PatientTwo, Observation>>),
     Document(<<PatientNoGender, PatientTwo>>),
     [kind |-> "json", data |-> EmptyDict],
     [kind |-> "JSONDecodeError"],
     [kind |-> "IOError"]}

\* the store before the first run: empty, or holding a row of ID "1"
InitialPatients ==
    {{}, {extract_data_from_entry(PatientDoeAgain).data}}

Init ==
    /\ files \in ListsOf(FileContents, MaxFiles)
    /\ patients \in InitialPatients
    /\ encounters = {}
    /\ run = 1
    /\ i = 0
    /\ pc = "loop"
    /\ task = <<>>
    /\ results = <<>>
    /\ r = 0
    /\ last = NoCall
    /\ progress = NoProgress
    /\ inserted = {}
    /\ after1 = NotTaken
    /\ faults = 0
    /\ arg = EmptyDict
    /\ ret = Pending

Next ==
    \/ StartBatch
    \/ \E j \in DOMAIN task : WorkerStart(j)
    \/ \E j \in DOMAIN task : WorkerFinish(j)
    \/ MapReturn
    \/ SkipResult
    \/ InsertPatients
    \/ InsertEncounters
    \/ LogProgress
    \/ Return
    \/ SecondRun

Spec ==
    Init /\ [][Next]_vars

--------------------------------------------------------------------------
(* The calls of the pure functions, on every input within the bounds *)

\* process_directory is not running
LoaderIdle ==
    /\ files = <<>>
    /\ patients = {}
    /\ encounters = {}
    /\ run = 1
    /\ i = 0
    /\ pc = "idle"
    /\ task = <<>>
    /\ results = <<>>
    /\ r = 0
    /\ last = NoCall
    /\ progress = NoProgress
    /\ inserted = {}
    /\ after1 = NotTaken
    /\ faults = 0

\* None, and every address within the bounds: each of line, city, state and
\* country present or not, and a key format_address does not read present
\* or not
InitAddress ==
    /\ LoaderIdle
    /\ \/ arg = NoneObject
       \/ \E l \in Opt("line", ListsOf(AddressStrings, MaxLines)),
             c \in Opt("city", AddressStrings),
             s \in Opt("state", AddressStrings),
             k \in Opt("country", AddressStrings),
             z \in Opt("postalCode", {<<"9">>}) :
              arg = l @@ c @@ s @@ k @@ z
    /\ ret = Pending

CallFormatAddress ==
    /\ ret = Pending
    /\ ret' = [type |-> "ok", value |-> format_address(arg)]
    /\ UNCHANGED <<arg, loaderVars>>

SpecAddress ==
    InitAddress /\ [][CallFormatAddress]_vars

InitExtract ==
    /\ LoaderIdle
    /\ arg \in EntryInputs
    /\ ret = Pending

CallExtract ==
    /\ ret = Pending
    /\ ret' = extract_data_from_entry(arg)
    /\ UNCHANGED <<arg, loaderVars>>

SpecExtract ==
    InitExtract /\ [][CallExtract]_vars

--------------------------------------------------------------------------
(* What the specification says of the Extractor, stated without the        *)
(* operators that model the code                                           *)

Separators ==
    {",", " "}

\* an address object that is empty or absent
EmptyOrAbsent(address) ==
    address = [None |-> TRUE] \/ DOMAIN address = {}

AllIn(s, chars) ==
    \A n \in 1..Len(s) : s[n] \in chars

\* the elements of list with sep between each two, built from the end
RECURSIVE Interleaved(_, _)
Interleaved(list, sep) ==
    IF list = <<>> THEN <<>>
    ELSE IF Len(list) = 1 THEN list[1]
    ELSE Interleaved(SubSeq(list, 1, Len(list) - 1), sep) \o sep
         \o list[Len(list)]

\* the four segments of an address: the joined lines, city, state, country,
\* an absent component being the empty segment
Segments(address) ==
    LET seg(k) == IF k \in DOMAIN address THEN address[k] ELSE <<>>
    IN  <<Interleaved(seg("line"), <<",", " ">>), seg("city"), seg("state"),
          seg("country")>>

Untrimmed(address) ==
    Interleaved(Segments(address), <<",", " ">>)

\* the segments without the empty ones that lead and trail, comma-separated
TrimmedSegments(address) ==
    LET segs == Segments(address)
        full == {n \in 1..4 : segs[n] # <<>>}
    IN  IF full = {} THEN <<>>
        ELSE LET lo == CHOOSE n \in full : \A m \in full : n <= m
                 hi == CHOOSE n \in full : \A m \in full : m <= n
             IN  Interleaved(SubSeq(segs, lo, hi), <<",", " ">>)

MainSt ==
    <<"1", "2", "3", "4", " ", "M", "a", "i", "n", " ", "S", "t">>

Townsville ==
    <<"T", "o", "w", "n", "s", "v", "i", "l", "l", "e">>

TS ==
    <<"T", "S">>

Countryland ==
    <<"C", "o", "u", "n", "t", "r", "y", "l", "a", "n", "d">>

\* the worked examples of test_format_address
AddressExamples ==
    /\ format_address([line |-> <<MainSt>>, city |-> Townsville,
                       state |-> TS, country |-> Countryland])
         = <<"1", "2", "3", "4", " ", "M", "a", "i", "n", " ", "S", "t",
             ",", " ", "T", "o", "w", "n", "s", "v", "i", "l", "l", "e",
             ",", " ", "T", "S", ",", " ",
             "C", "o", "u", "n", "t", "r", "y", "l", "a", "n", "d">>
    /\ format_address([line |-> <<MainSt>>, city |-> Townsville])
         = <<"1", "2", "3", "4", " ", "M", "a", "i", "n", " ", "S", "t",
             ",", " ", "T", "o", "w", "n", "s", "v", "i", "l", "l", "e">>
    /\ format_address(EmptyDict) = None
    /\ format_address([line |-> <<MainSt>>, state |-> TS,
                       country |-> Countryland])
         = <<"1", "2", "3", "4", " ", "M", "a", "i", "n", " ", "S", "t",
             ",", " ", ",", " ", "T", "S", ",", " ",
             "C", "o", "u", "n", "t", "r", "y", "l", "a", "n", "d">>
    /\ format_address([city |-> Townsville, state |-> TS])
         = <<"T", "o", "w", "n", "s", "v", "i", "l", "l", "e", ",", " ",
             "T", "S">>

\* C7, as claimed: format_address gives None for the empty or absent
\* address and, for any other, the line entries joined with ", " and city,
\* state and country, comma-separated in that order, absent components
\* being empty segments, of which only the leading and trailing empty ones
\* (with their separators) are trimmed; the four worked examples hold.
C7Original ==
    /\ AddressExamples
    /\ ret.type = "ok" =>
           ret.value = IF EmptyOrAbsent(arg) THEN None
                       ELSE TrimmedSegments(arg)

\* C7, amended: format_address gives None for the empty or absent address
\* (never the empty string) and, for any other address, the untrimmed string (lines,
\* city, state, country joined with ", ") without its longest prefix and
\* its longest suffix made of ',' and ' ' characters, whether those come
\* from separators around empty segments or from a component's own text;
\* the four worked examples hold.
C7Trimmed ==
    /\ AddressExamples
    /\ ret.type = "ok" =>
           IF EmptyOrAbsent(arg) THEN ret.value = None
           ELSE LET u == Untrimmed(arg)
                    v == ret.value
                IN  /\ v # None
                    /\ \E a \in 0..Len(u) :
                           /\ v = SubSeq(u, a + 1, a + Len(v))
                           /\ a + Len(v) <= Len(u)
                           /\ AllIn(SubSeq(u, 1, a), Separators)
                           /\ AllIn(SubSeq(u, a + Len(v) + 1, Len(u)),
                                    Separators)
                    /\ v # <<>> => /\ v[1] \notin Separators
                                   /\ v[Len(v)] \notin Separators

\* an address with a city and no line was formatted, and something was
\* trimmed from both ends
C7Witness ==
    /\ ret.type = "ok"
    /\ ~EmptyOrAbsent(arg)
    /\ Has(arg, "city") /\ ~Has(arg, "line") /\ ~Has(arg, "country")
    /\ ret.value # <<>>
    /\ Len(ret.value) + 4 <= Len(Untrimmed(arg))

\* "Family, Given1 Given2"
SpecName(resource) ==
    resource["name"][1]["family"] \o <<",", " ">>
        \o Interleaved(resource["name"][1]["given"], <<" ">>)

\* the substring of ref after its last ':' (all of ref when it has none)
AfterLastColon(ref) ==
    LET k == CHOOSE n \in 0..Len(ref) :
                 /\ n = 0 \/ ref[n] = ":"
                 /\ \A m \in (n + 1)..Len(ref) : ref[m] # ":"
    IN  SubSeq(ref, k + 1, Len(ref))

PatientRequired(resource) ==
    /\ Has(resource, "id") /\ Has(resource, "gender")
    /\ Has(resource, "birthDate") /\ Has(resource, "name")
    /\ resource["name"] # <<>>
    /\ Has(resource["name"][1], "family")
    /\ Has(resource["name"][1], "given")

EncounterRequired(resource) ==
    /\ Has(resource, "id") /\ Has(resource, "status")
    /\ Has(resource, "subject") /\ Has(resource["subject"], "reference")

C8Mapping(entry, out) ==
    LET res == entry["resource"]
    IN  /\ res["resourceType"] = "Patient" /\ PatientRequired(res) =>
               /\ out.type = "Patient"
               /\ out.data["ID"] = res["id"]
               /\ out.data["Name"] = SpecName(res)
               /\ ~Has(res, "deceasedDateTime") =>
                      out.data["Deceased DateTime"] = None
               /\ ~Has(res, "maritalStatus") =>
                      out.data["Marital Status"] = None
               /\ ~Has(res, "address") => out.data["Address"] = None
        /\ res["resourceType"] = "Encounter" /\ EncounterRequired(res) =>
               /\ out.type = "Encounter"
               /\ out.data["Encounter ID"] = res["id"]
               /\ out.data["Patient ID"]
                      = AfterLastColon(res["subject"]["reference"])
               /\ out.data["Type"]
                      = IF Has(res, "type") /\ res["type"] # <<>>
                           /\ Has(res["type"][1], "text")
                        THEN res["type"][1]["text"]
                        ELSE Unknown
        /\ res["resourceType"] \notin {"Patient", "Encounter"} =>
               out.type = "None"

HasKind(entry) ==
    Has(entry, "resource") /\ Has(entry["resource"], "resourceType")

\* C8, as claimed: a Patient resource with its required fields present
\* gives a Patient row with ID = id and Name = "family, given names", absent
\* optional fields giving None and no failure; an Encounter resource with
\* id, status and subject reference gives an Encounter row with Encounter
\* ID = id, Patient ID = the reference after its last ':' and Type = the
\* first type's text or "Unknown"; a resource of another kind gives None.
C8Claim ==
    ret # Pending /\ HasKind(arg) => C8Mapping(arg, ret)

\* an optional list that is present and empty: "address": [] or "type": []
EmptyOptionalList(entry) ==
    \/ Has(entry["resource"], "address") /\ entry["resource"]["address"] = <<>>
    \/ Has(entry["resource"], "type") /\ entry["resource"]["type"] = <<>>

\* the mapping C8 claims holds of every entry none of whose optional lists
\* is present and empty
C8NonEmptyLists ==
    ret # Pending /\ HasKind(arg) /\ ~EmptyOptionalList(arg) =>
        C8Mapping(arg, ret)

--------------------------------------------------------------------------
(* What the specification says of the File Reader, the insert and the      *)
(* Loader                                                                  *)

KeyUnique(table, unique_column) ==
    \A a, b \in table : a[unique_column] = b[unique_column] => a = b

\* the batch that task and results are about is the one at i
InBatch ==
    pc \in {"map", "insert", "insert_encounters", "aborted"}

\* the table the latest safe_insert call wrote to, and its unique column
LastTable ==
    IF last.call = "patients" THEN patients ELSE encounters

LastColumn ==
    IF last.call = "patients" THEN "ID" ELSE "Encounter ID"

\* the elements of seq at the positions in at, in order
RECURSIVE SelectAt(_, _)
SelectAt(seq, at) ==
    IF seq = <<>> THEN <<>>
    ELSE SelectAt(SubSeq(seq, 1, Len(seq) - 1), at)
         \o (IF Len(seq) \in at THEN <<seq[Len(seq)]>> ELSE <<>>)

\* the rows of the given kind of the entries that extract without raising
RECURSIVE GoodData(_, _)
GoodData(entries, kind) ==
    IF entries = <<>> THEN <<>>
    ELSE GoodData(SubSeq(entries, 1, Len(entries) - 1), kind)
         \o (LET out == extract_data_from_entry(entries[Len(entries)])
             IN  IF out.type = kind THEN <<out.data>> ELSE <<>>)

Entries(content) ==
    IF Has(content.data, "entry") THEN content.data["entry"] ELSE <<>>

C2FirstWins ==
    /\ [](KeyUnique(patients, "ID") /\ KeyUnique(encounters, "Encounter ID"))
    /\ [][patients \subseteq patients' /\ encounters \subseteq encounters']_vars
    /\ [](last.call # "none" =>
              \A n \in 1..Len(last.records) :
                  n \notin last.fault =>
                      Cardinality({row \in LastTable :
                          row[LastColumn] = last.records[n][LastColumn]}) = 1)

\* safe_insert was handed a record whose ID was stored with other field
\* values: the stored row is still the first one
C2Witness ==
    /\ last.call = "patients"
    /\ \E n \in 1..Len(last.records) :
           /\ n \notin last.fault
           /\ last.records[n] \notin patients
           /\ \E row \in patients : row["ID"] = last.records[n]["ID"]

\* C3, as claimed: process_file on a parseable file skips an entry that
\* lacks a required key and returns the rows of every other Patient and
\* Encounter entry of the file.
C3Claim ==
    \A j \in DOMAIN task :
        InBatch /\ task[j] = "done" /\ ~FileError(files[i + j]) =>
            /\ ~Raised(results[j])
            /\ results[j].patients
                   = GoodData(Entries(files[i + j]), "Patient")
            /\ results[j].encounters
                   = GoodData(Entries(files[i + j]), "Encounter")

C5NeverAborts ==
    pc # "aborted"

\* C6: safe_insert hands every record to conn.execute once, in order; it
\* logs exactly the records on which the store raised (none when it raised
\* on none); and every record on which the store did not raise has its key
\* in the table afterwards, so a conflict or an error on one record stops
\* no later one.
C6EveryRecord ==
    last.call # "none" =>
        /\ last.attempted = last.records
        /\ last.logged = SelectAt(last.records, last.fault)
        /\ last.fault = {} => last.logged = <<>>
        /\ \A n \in 1..Len(last.records) :
               n \notin last.fault =>
                   \E row \in LastTable :
                       row[LastColumn] = last.records[n][LastColumn]

\* the store raised on the first of two records and the second was stored
C6Witness ==
    /\ last.call = "patients"
    /\ Len(last.records) = 2
    /\ last.fault = {1}
    /\ last.records[2] \in patients

\* the batches of the partition of the listing into consecutive batches of
\* at most batch_size files
TotalBatches ==
    Cardinality({b \in 0..Len(files) : b * batch_size < Len(files)})

\* C9, as claimed: after the k-th batch the report is k / T, T being the
\* number of batches of the partition, so the last report is T / T.
C9Claim ==
    progress.k > 0 =>
        /\ progress.total = TotalBatches
        /\ progress.k <= progress.total
        /\ pc = "loop" /\ i >= Len(files) => progress.k = progress.total

\* C10: only the Loader's insert steps change a table, one table at a time;
\* while an insert can run every worker of the batch is done and no worker
\* is running; a worker runs only while the Loader waits in pool.map, when
\* the inserts of every earlier batch are over and none of this batch has
\* begun; and a worker step changes no table.
C10SingleWriter ==
    /\ [][patients' # patients \/ encounters' # encounters =>
              /\ pc \in {"insert", "insert_encounters"}
              /\ patients' = patients \/ encounters' = encounters
              /\ task' = task /\ results' = results]_vars
    /\ [](pc \in {"insert", "insert_encounters"} =>
              \A j \in DOMAIN task : task[j] = "done")
    /\ [](\A j \in DOMAIN task : task[j] = "running" => pc = "map")
    /\ [](pc = "map" =>
              inserted = {f \in 1..i : ~FileError(files[f])})
    /\ [][task' # task =>
              patients' = patients /\ encounters' = encounters]_vars

\* the Loader is between the two inserts of a file of the second batch,
\* after the workers of that batch ran
C10Witness ==
    /\ pc = "insert_encounters"
    /\ i > 0
    /\ encounters # {}
    /\ \A j \in DOMAIN task : task[j] = "done"

==========================================================================
